---- MODULE Spec2Model ----
(***************************************************************************)
(* PYUSD Guardian: block poller, per-transaction pipeline, opcode-level    *)
(* trace risk analyzer, compliance rule engine and alert store.            *)
(*                                                                         *)
(* Strings of hexadecimal digits are modelled as sequences of chunks, a    *)
(* chunk standing for a fixed run of characters ("0x", the 8 digits of a   *)
(* selector, the 40 digits of an address, ...).  CharLen gives the number  *)
(* of characters of a chunk, so that slice, startsWith and includes are    *)
(* computed on character positions as the JavaScript does.                 *)
(***************************************************************************)
EXTENDS Integers, Sequences, FiniteSets, TLC

(***************************************************************************)
(* Bounds of the model                                                     *)
(***************************************************************************)
\* free choice of the first steps of a trace
MaxFree == 3
\* further repetitions of the last step of a trace
MaxRepeat == 5

(***************************************************************************)
(* State                                                                   *)
(***************************************************************************)
VARIABLES
  \* the response of debug_traceTransaction under analysis
  structLogs, traceGas, returnValueLen,
  \* the transaction handed to evaluateCompliance
  evalTx,
  \* results of analyzeTrace and evaluateCompliance on that trace
  report, issues,
  \* the blocks the node serves: chain[b] is the transaction list of block b
  chain,
  \* the module installed as ./traceAnalyzer.js: the repository holds one
  \* that validates the hash and the response and one that does not
  traceFetcher,
  \* monitor.js: the cursor
  latestBlock,
  \* position of monitorBlocks and its locals
  pc, currentBlock, start, end, blockNumber, successfulBlocks,
  \* the processTransaction calls of the block being processed
  pipes,
  \* the Alert collection of the database
  alerts,
  \* the saveAlert calls made directly on the store, with their outcome
  callLog,
  \* the Transaction collection of the database, and the saveTransaction
  \* calls running on it, each at one of its awaits
  txStore, saves,
  \* log lines: 'Processing block', 'Error processing block',
  \* 'Starting from block', the heads read, the transactions handed to
  \* processTransaction and those analyzed and evaluated
  attemptLog, failedBlocks, initialCursor, observedHead, processed, evaluated,
  \* the pending setTimeout of monitorBlocks, with the path that set it
  timer,
  \* the batches of the poll iteration under way, as 'Processing block batch'
  \* logs them, and the cursor the iteration began with
  iteration,
  \* one withRetry call: its position, retryCount and what it did
  retrier,
  \* one processBlockSafely call on its own: the getBlockTransactions calls
  \* it makes through withRetry, and what it reports
  fetcher

unitVars == <<retrier, fetcher>>
traceVars == <<structLogs, traceGas, returnValueLen, evalTx, report, issues>>
loopVars == <<currentBlock, start, end, blockNumber, successfulBlocks, iteration>>
logVars == <<attemptLog, failedBlocks, initialCursor, observedHead, processed, evaluated>>
pollVars == <<chain, traceFetcher, latestBlock, pc, timer, loopVars, pipes, logVars>>
txVars == <<txStore, saves>>
storeVars == <<alerts, callLog, txVars>>
vars == <<unitVars, traceVars, pollVars, storeVars>>

(***************************************************************************)
(* Hex strings as chunk sequences                                          *)
(***************************************************************************)
\* address bodies (40 hex digits); the upper-case names are mixed-case
\* spellings of the lower-case ones
LowerBodies == {"pyusd", "dead", "1111", "a11ce", "b0b"}
UpperBodies == {"PYUSD", "DEAD", "A11CE"}
Bodies == LowerBodies \cup UpperBodies

\* the 64 hexadecimal digits of a transaction hash
HashBodies ==
  {"h11", "h12", "h13", "h21", "h22", "h23", "h31", "h32", "h33",
   "h41", "h42", "h43", "h51", "h52", "h53"}

CharLen(c) ==
  CASE c = "0x" -> 2
    [] c = "a9059cbb" -> 8
    [] c = "pad24" -> 24
    [] c \in Bodies -> 40
    [] c = "amount64" -> 64
    [] c \in HashBodies -> 64
    [] c = "zz" -> 2
    [] OTHER -> 8

LowerChunk(c) ==
  CASE c = "PYUSD" -> "pyusd"
    [] c = "DEAD" -> "dead"
    [] c = "A11CE" -> "a11ce"
    [] OTHER -> c

\* String.prototype.toLowerCase
ToLowerCase(s) == [i \in 1..Len(s) |-> LowerChunk(s[i])]

Addr(body) == <<"0x", body>>

(***************************************************************************)
(* Trace risk analyzer                                                     *)
(***************************************************************************)
riskyOpcodes == {"DELEGATECALL", "CALLCODE", "SELFDESTRUCT", "CREATE", "CREATE2"}

stackManipulationOpcodes ==
  {"CALLDATALOAD", "CALLDATACOPY", "SLOAD", "SSTORE", "MLOAD", "MSTORE",
   "JUMP", "JUMPI"}

\* opcode names that occur in the traces of the model
OpNames == {"DELEGATECALL", "SELFDESTRUCT", "CALL", "CALLCODE", "JUMP", "JUMPI",
            "SSTORE", "ADD", "PUSH1"}

\* lastGas = null
NoGas == -1

JumpFrequencyLimit == 5
AnalyzerGasLimit == 5000000
ReturnDataLimit == 8192

\* variant: the first step counts as having a previous step
HasPrevious_always(lastGas) == TRUE

\* lastGas !== null
HasPrevious(lastGas) == lastGas # NoGas

\* variant: a step at exactly one and a half times the previous gas is a spike
GasSpike_inclusive(lastGas, gas) == HasPrevious(lastGas) /\ 2 * gas >= 3 * lastGas

\* lastGas !== null && step.gas > lastGas * 1.5
GasSpike(lastGas, gas) == HasPrevious(lastGas) /\ 2 * gas > 3 * lastGas

\* heuristic of the analyzer on JUMP and JUMPI: the frequency of the opcode,
\* the current step counted, is above 5
JumpFlood(op, freq) == op \in {"JUMPI", "JUMP"} /\ freq > JumpFrequencyLimit

\* variant: three depths are needed
MultiDepth_three(depths) == Cardinality(depths) > 2

\* delegateCallDepths.size > 1
MultiDepth(depths) == Cardinality(depths) > 1

\* variant: the threshold itself is high gas usage
HighGas_inclusive(finalGas) == finalGas >= AnalyzerGasLimit

\* finalGas > 5_000_000
HighGas(finalGas) == finalGas > AnalyzerGasLimit

\* trace.gas || (trace.structLogs.at(-1)?.gas || 0)
FinalGas(trace) ==
  IF trace.gas # 0 THEN trace.gas
  ELSE IF Len(trace.structLogs) > 0
       THEN trace.structLogs[Len(trace.structLogs)].gas
       ELSE 0

emptyReport ==
  [riskyOpcodes |-> <<>>, stackManipulation |-> <<>>,
   opcodeFrequency |-> [o \in OpNames |-> 0],
   depthMax |-> 0, gasSpikeDetected |-> FALSE, highGasUsage |-> FALSE,
   reentrancySuspected |-> FALSE, largeReturnData |-> FALSE,
   totalSteps |-> 0, flagged |-> FALSE]

Hit(step) == [op |-> step.op, pc |-> step.pc, depth |-> step.depth]

\* one iteration of the loop over trace.structLogs; acc holds the report,
\* lastGas and delegateCallDepths
analyzeStep(acc, step) ==
  LET r == acc.report
      freq == r.opcodeFrequency[step.op] + 1
      risky == step.op \in riskyOpcodes
      manip == step.op \in stackManipulationOpcodes
      jump == JumpFlood(step.op, freq)
      spike == GasSpike(acc.lastGas, step.gas)
  IN [report |->
        [r EXCEPT !.totalSteps = @ + 1,
                  !.opcodeFrequency = [@ EXCEPT ![step.op] = freq],
                  !.riskyOpcodes = IF risky THEN Append(@, Hit(step)) ELSE @,
                  !.stackManipulation = IF manip THEN Append(@, Hit(step)) ELSE @,
                  !.depthMax = IF step.depth > @ THEN step.depth ELSE @,
                  !.gasSpikeDetected = @ \/ spike,
                  !.flagged = @ \/ risky \/ jump \/ spike],
      lastGas |-> step.gas,
      delegateCallDepths |->
        IF risky /\ step.op = "DELEGATECALL"
        THEN acc.delegateCallDepths \cup {step.depth}
        ELSE acc.delegateCallDepths]

RECURSIVE analyzeLoop(_, _, _)
analyzeLoop(logs, i, acc) ==
  IF i > Len(logs) THEN acc
  ELSE analyzeLoop(logs, i + 1, analyzeStep(acc, logs[i]))

analyzeTrace(trace) ==
  LET acc == analyzeLoop(trace.structLogs, 1,
                         [report |-> emptyReport, lastGas |-> NoGas,
                          delegateCallDepths |-> {}])
      r == acc.report
      high == HighGas(FinalGas(trace))
      reent == MultiDepth(acc.delegateCallDepths)
      large == trace.returnValueLen # 0 /\ trace.returnValueLen > ReturnDataLimit
  IN [r EXCEPT !.highGasUsage = high,
               !.reentrancySuspected = reent,
               !.largeReturnData = large,
               !.flagged = @ \/ high \/ reent \/ large]

(***************************************************************************)
(* Character positions in chunk sequences                                  *)
(***************************************************************************)
RECURSIVE StrLen(_)
StrLen(s) == IF s = <<>> THEN 0 ELSE CharLen(Head(s)) + StrLen(Tail(s))

\* the chunks of s lying in the character range [a, b); a chunk only partly
\* inside the range is a fragment, written "cut"
RECURSIVE SliceAt(_, _, _, _)
SliceAt(s, pos, a, b) ==
  IF s = <<>> THEN <<>>
  ELSE LET n == CharLen(Head(s))
           rest == SliceAt(Tail(s), pos + n, a, b)
       IN IF pos >= a /\ pos + n <= b THEN <<Head(s)>> \o rest
          ELSE IF pos + n <= a \/ pos >= b THEN rest
          ELSE <<"cut">> \o rest

\* String.prototype.slice(a, b) and slice(-n)
Slice(s, a, b) == SliceAt(s, 0, a, b)
SliceLast(s, n) ==
  LET l == StrLen(s) IN SliceAt(s, 0, IF l > n THEN l - n ELSE 0, l)

\* Array.prototype.join on strings
RECURSIVE Join(_, _)
Join(parts, sep) ==
  IF parts = <<>> THEN <<>>
  ELSE IF Len(parts) = 1 THEN <<parts[1]>>
  ELSE <<parts[1], sep>> \o Join(Tail(parts), sep)

\* [...new Set(xs)]: the distinct elements of xs in order of first occurrence
RECURSIVE Distinct(_)
Distinct(xs) ==
  IF xs = <<>> THEN <<>>
  ELSE LET d == Distinct(SubSeq(xs, 1, Len(xs) - 1))
           x == xs[Len(xs)]
       IN IF \E i \in 1..Len(d) : d[i] = x THEN d ELSE Append(d, x)

(***************************************************************************)
(* Compliance rule engine                                                  *)
(***************************************************************************)
BLACKLIST == {Addr("1111"), Addr("dead")}
HIGH_GAS_THRESHOLD == 5000000
INTERNAL_TRANSFER_THRESHOLD == 5
RISKY_OPCODES == {"DELEGATECALL", "CALLCODE", "SELFDESTRUCT", "CREATE", "CREATE2"}

\* an absent field (null, undefined, the empty string)
Null == <<>>

Issue(rule, details) == [rule |-> rule, details |-> details, flagged |-> TRUE]

\* tx.to?.toLowerCase() of an absent field is undefined, printed "undefined"
Printed(a) == IF a = Null THEN <<"undefined">> ELSE a

\* a field of an object; undefined when the object has no such field
Field(obj, name) == IF name \in DOMAIN obj THEN obj[name] ELSE Null

\* checkBlacklist declares the one parameter tx
checkBlacklist(tx) ==
  LET to == ToLowerCase(Field(tx, "to"))
      from == ToLowerCase(Field(tx, "from"))
  IN IF to \in BLACKLIST \/ from \in BLACKLIST
     THEN <<Issue("BLACKLISTED_ADDRESS", Printed(from) \o <<" -> ">> \o Printed(to))>>
     ELSE <<>>

\* recipient of a CALL step: second-from-top stack word, last 40 characters
RecipientAddr(stack) == <<"0x">> \o ToLowerCase(SliceLast(stack[Len(stack) - 1], 40))

LoopStep(log, tx) ==
  /\ log.op \in {"CALL", "CALLCODE"}
  /\ Len(log.stack) >= 2
  /\ RecipientAddr(log.stack) = ToLowerCase(tx.from)

checkSelfTransferLoop(trace, tx) ==
  IF \E i \in 1..Len(trace.structLogs) : LoopStep(trace.structLogs[i], tx)
  THEN <<Issue("SELF_TRANSFER_LOOP", <<"Loop detected from ">> \o tx.from)>>
  ELSE <<>>

checkHighGas(trace) ==
  LET finalGas == FinalGas(trace)
  IN IF finalGas > HIGH_GAS_THRESHOLD
     THEN <<Issue("HIGH_GAS_USAGE", <<"Gas used: ", ToString(finalGas)>>)>>
     ELSE <<>>

IsCall(log) == log.op = "CALL"

\* variant: the threshold itself fires the rule
FloodExceeded_inclusive(count) == count >= INTERNAL_TRANSFER_THRESHOLD

\* calls.length > INTERNAL_TRANSFER_THRESHOLD
FloodExceeded(count) == count > INTERNAL_TRANSFER_THRESHOLD

checkInternalTransferFlood(trace) ==
  LET calls == SelectSeq(trace.structLogs, IsCall)
  IN IF FloodExceeded(Len(calls))
     THEN <<Issue("INTERNAL_TRANSFER_FLOOD",
                  <<ToString(Len(calls)), " internal transfers detected">>)>>
     ELSE <<>>

IsRisky(log) == log.op \in RISKY_OPCODES

checkRiskyOpcodes(trace) ==
  LET hits == SelectSeq(trace.structLogs, IsRisky)
      ops == [i \in 1..Len(hits) |-> hits[i].op]
  IN IF Len(hits) > 0
     THEN <<Issue("RISKY_OPCODE_USAGE", <<"Opcodes used: ">> \o Join(Distinct(ops), ", "))>>
     ELSE <<>>

IsDelegateCall(log) == log.op = "DELEGATECALL"

checkReentrancy(trace) ==
  LET dc == SelectSeq(trace.structLogs, IsDelegateCall)
      depths == Distinct([i \in 1..Len(dc) |-> ToString(dc[i].depth)])
  IN IF Len(depths) > 1
     THEN <<Issue("REENTRANCY_SUSPECTED",
                  <<"Delegate calls at depths: ">> \o Join(depths, ", "))>>
     ELSE <<>>

\* runs the six rules in order and collects the issues that are not null;
\* every rule is called as rule(trace, tx), so that the first parameter of a
\* rule is bound to the trace, and the second, where declared, to tx
evaluateCompliance(trace, tx) ==
  checkBlacklist(trace) \o checkSelfTransferLoop(trace, tx)
    \o checkHighGas(trace) \o checkInternalTransferFlood(trace)
    \o checkRiskyOpcodes(trace) \o checkReentrancy(trace)

\* const rules = [...]: the rules by the name of their issue, in the order
\* of the loop
Rules ==
  <<"BLACKLISTED_ADDRESS", "SELF_TRANSFER_LOOP", "HIGH_GAS_USAGE",
    "INTERNAL_TRANSFER_FLOOD", "RISKY_OPCODE_USAGE", "REENTRANCY_SUSPECTED">>

\* the rules that returned in one call of evaluateCompliance: all of them on
\* a trace whose structLogs is an array; otherwise checkBlacklist returns and
\* trace.structLogs.filter of checkSelfTransferLoop throws out of the loop
RulesRun(shape) == IF shape = "malformed" THEN 1 ELSE Len(Rules)

\* the trace object received from the node
Trace(logs, gas, retLen) ==
  [gas |-> gas, structLogs |-> logs, returnValueLen |-> retLen]

CurrentTrace == Trace(structLogs, traceGas, returnValueLen)

(***************************************************************************)
(* Alert store                                                             *)
(***************************************************************************)
\* the documents of the store with the given txHash
DocsOf(store, txHash) == {d \in store : d.txHash = txHash}

\* variant: the stored document is returned as it is
Updated_kept(doc, alertData) == doc

\* findOneAndUpdate({ txHash }, alertData): the first matching document takes
\* the fields of alertData and keeps its other fields
Updated(doc, alertData) ==
  [f \in DOMAIN doc \cup DOMAIN alertData |->
     IF f \in DOMAIN alertData THEN alertData[f] ELSE doc[f]]

\* variant: every call inserts a document
saveAlert_insertOnly(store, alertData) == store \cup {alertData}

\* saveAlert: insert; a duplicate txHash violates the unique index (error
\* 11000) and the stored document is updated instead
saveAlert(store, alertData) ==
  IF DocsOf(store, alertData.txHash) = {}
  THEN store \cup {alertData}
  ELSE LET doc == CHOOSE d \in DocsOf(store, alertData.txHash) : TRUE
       IN (store \ {doc}) \cup {Updated(doc, alertData)}

(***************************************************************************)
(* saveTransaction (database.js)                                           *)
(***************************************************************************)
\* if (count > 1000)
TransactionLimit == 1000

\* saveTransaction calls that run at the same time
MaxSaves == 2

\* a document of the collection: its timestamp and its txHash
Row(ts, txHash) == [ts |-> ts, txHash |-> txHash]

\* Transaction.findOne({ txHash })
RowsOf(rows, txHash) == {r \in rows : r.txHash = txHash}

\* variant: one document is pruned, whatever the count
Excess_one(count) == 1

\* const excessCount = count - 1000
Excess(count) == count - TransactionLimit

\* Transaction.find().sort({ timestamp: 1 }).limit(k)
RECURSIVE Oldest(_, _)
Oldest(rows, k) ==
  IF k <= 0 \/ rows = {} THEN {}
  ELSE LET first == CHOOSE r \in rows : \A q \in rows : r.ts <= q.ts
       IN {first} \cup Oldest(rows \ {first}, k - 1)

idleSave == [pc |-> "idle", row |-> Row(0, <<>>), count |-> 0, found |-> {}]

\* saveTransaction(txData) is called
SaveStart(s, row) ==
  /\ saves[s].pc = "idle"
  /\ saves' = [saves EXCEPT ![s] = [pc |-> "findOne", row |-> row, count |-> 0, found |-> {}]]
  /\ UNCHANGED txStore

\* await Transaction.findOne: an existing document is returned at once
SaveFindOne(s) ==
  /\ saves[s].pc = "findOne"
  /\ saves' = [saves EXCEPT ![s].pc =
                 IF RowsOf(txStore, saves[s].row.txHash) # {} THEN "returned" ELSE "save"]
  /\ UNCHANGED txStore

\* await transaction.save(): the unique index on txHash rejects a second
\* document of the same hash (error 11000), and the catch returns the stored one
SaveInsert(s) ==
  /\ saves[s].pc = "save"
  /\ IF RowsOf(txStore, saves[s].row.txHash) # {}
     THEN /\ saves' = [saves EXCEPT ![s].pc = "returned"]
          /\ UNCHANGED txStore
     ELSE /\ txStore' = txStore \cup {saves[s].row}
          /\ saves' = [saves EXCEPT ![s].pc = "count"]

\* await Transaction.countDocuments(), then await Transaction.find() of the
\* oldest documents beyond the limit
SaveCount(s) ==
  /\ saves[s].pc = "count"
  /\ saves' = [saves EXCEPT ![s].pc =
                 IF Cardinality(txStore) > TransactionLimit THEN "find" ELSE "returned",
                            ![s].count = Cardinality(txStore)]
  /\ UNCHANGED txStore

SaveFindOldest(s) ==
  /\ saves[s].pc = "find"
  /\ LET oldest == Oldest(txStore, Excess(saves[s].count)) IN
       saves' = [saves EXCEPT ![s].pc = IF oldest # {} THEN "delete" ELSE "returned",
                              ![s].found = oldest]
  /\ UNCHANGED txStore

\* await Transaction.deleteMany({ _id: { $in: idsToDelete } })
SaveDeleteMany(s) ==
  /\ saves[s].pc = "delete"
  /\ txStore' = txStore \ saves[s].found
  /\ saves' = [saves EXCEPT ![s].pc = "returned", ![s].found = {}]

(***************************************************************************)
(* Transactions                                                            *)
(***************************************************************************)
PYUSD_ADDRESS == Addr("pyusd")
TRANSFER_SELECTOR == <<"0x", "a9059cbb">>
MAX_BLOCKS_PER_BATCH == 2
MAX_CONCURRENT_TRACES == 1

Tx(hash, from, to, input) ==
  [hash |-> hash, from |-> from, to |-> to, input |-> input]

\* String.prototype.includes and startsWith
Includes(s, sub) ==
  \E i \in 1..(Len(s) - Len(sub) + 1) : SubSeq(s, i, i + Len(sub) - 1) = sub
StartsWith(s, prefix) ==
  Len(s) >= Len(prefix) /\ SubSeq(s, 1, Len(prefix)) = prefix

\* tx.hash || '0x0'
TxHashOf(tx) == IF tx.hash = Null THEN <<"0x0">> ELSE tx.hash

\* variant: the recipient is not looked at
involvesPYUSD_noRecipient(tx) ==
  \/ ToLowerCase(tx.from) = PYUSD_ADDRESS
  \/ Includes(tx.input, Slice(PYUSD_ADDRESS, 2, StrLen(PYUSD_ADDRESS)))

\* to === PYUSD_ADDRESS || from === PYUSD_ADDRESS ||
\* input.includes(PYUSD_ADDRESS.slice(2))
involvesPYUSD(tx) ==
  \/ ToLowerCase(tx.to) = PYUSD_ADDRESS
  \/ ToLowerCase(tx.from) = PYUSD_ADDRESS
  \/ Includes(tx.input, Slice(PYUSD_ADDRESS, 2, StrLen(PYUSD_ADDRESS)))

\* input.startsWith('0xa9059cbb')
isPYUSDTransfer(tx) == StartsWith(tx.input, TRANSFER_SELECTOR)

\* BigInt('0x' + input.slice(74, 138)) throws a SyntaxError on an empty or
\* non-hexadecimal digit string
DecodeThrows(tx) ==
  LET digits == Slice(tx.input, 74, 138)
  IN digits = <<>> \/ \E i \in 1..Len(digits) : digits[i] = "zz"

(***************************************************************************)
(* getTransactionTrace                                                     *)
(***************************************************************************)
\* /^0x([A-Fa-f0-9]{64})$/
isValidTxHash(hash) == Len(hash) = 2 /\ hash[1] = "0x" /\ hash[2] \in HashBodies

\* what provider.send does: it returns a well-formed trace, an object whose
\* structLogs is not an array, or null, or it throws a timeout or another
\* error
Sent(shape, trace) == [shape |-> shape, trace |-> trace]
NoTrace == Sent("null", Null)

\* res && typeof res === 'object' && Array.isArray(res.structLogs)
WellFormed(res) == res.shape = "trace"

\* the response is returned after validation, the response of the one
\* retry after a timeout is returned as it is
getTransactionTrace(txHash, first, second) ==
  IF ~isValidTxHash(txHash) THEN NoTrace
  ELSE IF first.shape \notin {"timeout", "error"}
       THEN IF WellFormed(first) THEN first ELSE NoTrace
  ELSE IF first.shape = "timeout"
       THEN IF second.shape \notin {"timeout", "error"} THEN second ELSE NoTrace
  ELSE NoTrace

\* the provider.send calls made, each with what the node answered: none for
\* an invalid hash, a second one only after a timeout
Requests(txHash, first, second) ==
  IF ~isValidTxHash(txHash) THEN <<>>
  ELSE IF first.shape = "timeout" THEN <<first.shape, second.shape>>
  ELSE <<first.shape>>

\* the response that decided the result
Decisive(txHash, first, second) ==
  IF ~isValidTxHash(txHash) THEN "none"
  ELSE IF first.shape = "timeout" THEN second.shape
  ELSE first.shape

\* traceAnalyzer.js: the response is returned as it is, null on any error
plainGetTransactionTrace(first) ==
  IF first.shape \in {"timeout", "error"} THEN NoTrace ELSE first

\* the two modules that export getTransactionTrace
TraceFetchers == {"validating", "plain"}

\* getTransactionTrace of the installed module: its result, the provider.send
\* calls it made and the response that decided
FetchTrace(module, txHash, first, second) ==
  IF module = "plain"
  THEN [res |-> plainGetTransactionTrace(first), sends |-> <<first.shape>>,
        decisive |-> first.shape]
  ELSE [res |-> getTransactionTrace(txHash, first, second),
        sends |-> Requests(txHash, first, second),
        decisive |-> Decisive(txHash, first, second)]

(***************************************************************************)
(* processTransaction (monitor.js)                                         *)
(***************************************************************************)
\* a JavaScript string, or an array of strings
Str(chunks) == [type |-> "string", items |-> <<chunks>>]
Arr(strings) == [type |-> "array", items |-> strings]

\* Array.prototype.join on an array of strings
RECURSIVE JoinStrings(_, _)
JoinStrings(strings, sep) ==
  IF strings = <<>> THEN <<>>
  ELSE IF Len(strings) = 1 THEN strings[1]
  ELSE strings[1] \o <<sep>> \o JoinStrings(Tail(strings), sep)

RulesOf(flags) == [i \in 1..Len(flags) |-> <<flags[i].rule>>]
DetailsOf(flags) == [i \in 1..Len(flags) |-> flags[i].details]

\* report?.severity || 'medium', forced to 'medium' unless low, medium or high
Severity(rep) ==
  IF "severity" \in DOMAIN rep /\ rep.severity \in {"low", "medium", "high"}
  THEN rep.severity ELSE "medium"

Alert(txHash, blockNo, rule, details, rep) ==
  [txHash |-> txHash, blockNumber |-> blockNo, rule |-> rule,
   details |-> details, riskReport |-> rep, severity |-> Severity(rep)]

\* the alert of the transfer branch: rules and details joined into strings
TransferAlert(txHash, blockNo, rep, flags) ==
  Alert(txHash, blockNo,
        IF Len(flags) > 0 THEN Str(JoinStrings(RulesOf(flags), ", "))
                          ELSE Str(<<"No rule triggered">>),
        IF Len(flags) > 0 THEN Str(JoinStrings(DetailsOf(flags), "; "))
                          ELSE Str(<<"No details">>),
        rep)

\* the alert of the involvesPYUSD branch: rules and details as arrays
InvolvedAlert(txHash, blockNo, rep, flags) ==
  Alert(txHash, blockNo, Arr(RulesOf(flags)), Arr(DetailsOf(flags)), rep)

\* report.flagged || complianceFlags.length > 0
NeedsAlert(rep, flags) == rep.flagged \/ Len(flags) > 0

\* the notifiers called for an alert: notifyClients and the three channels;
\* the involvesPYUSD branch calls them only for severity 'high'
Channels == {"live", "sheet", "discord", "email"}
NotifiedSinks(branch, alert) ==
  IF branch = "transfer" \/ alert.severity = "high" THEN Channels ELSE {}

\* variant: a failed write of the alert ends the dispatch
SinksAfterStore_abort(branch, alert, saved) ==
  IF saved THEN NotifiedSinks(branch, alert) ELSE {}

\* saveAlert sits in a try/catch of its own: the notifiers are called
\* whether or not it threw
SinksAfterStore(branch, alert, saved) == NotifiedSinks(branch, alert)

\* the notifiers that may fail while an alert is sent to sinks: none, or one
\* of the outbound channels
Failing(sinks) == {{}} \cup {{c} : c \in sinks \ {"live"}}

\* a queued processTransaction call
Pipe(tx) ==
  [tx |-> tx, slot |-> 0, pc |-> "queued", branch |-> "none", outcome |-> "none",
   traceRequests |-> 0, sends |-> <<>>, nodeSaid |-> "none", analyzed |-> FALSE,
   rulesRun |-> 0, rep |-> emptyReport, flags |-> <<>>, dispatched |-> <<>>]

Done(p, outcome) == [p EXCEPT !.pc = "done", !.outcome = outcome]

\* variant: the exception leaves processTransaction
Caught_rethrown(p) == Done(p, "rejected")

\* catch (error) of processTransaction: the error is logged
Caught(p) == Done(p, "error")

\* variant: a transaction without a sender is processed like any other
MissingFrom_ignored(tx) == FALSE

\* !from
MissingFrom(tx) == tx.from = Null

\* processTransaction up to its first await
Started(p) ==
  LET tx == p.tx IN
  IF tx = Null THEN Done(p, "malformed")
  ELSE IF MissingFrom(tx) THEN Done(p, "noFrom")
  ELSE IF isPYUSDTransfer(tx)
       THEN IF DecodeThrows(tx) THEN Caught(p)
            ELSE [p EXCEPT !.pc = "saveTransaction", !.branch = "transfer"]
  ELSE IF involvesPYUSD(tx)
       THEN [p EXCEPT !.pc = "saveTransaction", !.branch = "involved"]
  ELSE Done(p, "skipped")

\* after the trace arrived: analysis, rules, assembly of the alert
Traced(p, trace, blockNo) ==
  LET rep == analyzeTrace(trace)
      flags == evaluateCompliance(trace, p.tx)
      q == [p EXCEPT !.rep = rep, !.flags = flags, !.analyzed = TRUE,
                     !.rulesRun = RulesRun("trace")]
  IN IF NeedsAlert(rep, flags)
     THEN [q EXCEPT !.pc = "dispatch"]
     ELSE Done(q, "clean")

AssembledAlert(p, blockNo) ==
  IF p.branch = "transfer"
  THEN TransferAlert(TxHashOf(p.tx), blockNo, p.rep, p.flags)
  ELSE InvolvedAlert(TxHashOf(p.tx), blockNo, p.rep, p.flags)

InFlight == {i \in 1..Len(pipes) : pipes[i].pc \notin {"queued", "done"}}

(***************************************************************************)
(* Inputs of the analyzer and of the rule engine                           *)
(***************************************************************************)
Word(body) == <<"pad24", body>>

Step(op, depth, gas, stack) ==
  [op |-> op, pc |-> 0, depth |-> depth, gas |-> gas, stack |-> stack]

AnalyzerSteps ==
  { Step("JUMP", 1, 100, <<>>),
    Step("JUMPI", 1, 100, <<>>),
    Step("SSTORE", 1, 150, <<>>),
    Step("ADD", 2, 151, <<>>),
    Step("DELEGATECALL", 1, 100, <<>>),
    Step("DELEGATECALL", 2, 100, <<>>),
    Step("SELFDESTRUCT", 1, 100, <<>>),
    Step("CALL", 1, 100, <<Word("A11CE"), Word("b0b")>>),
    Step("PUSH1", 1, 5000001, <<>>) }

ComplianceSteps ==
  { Step("CALL", 1, 100, <<Word("A11CE"), Word("b0b")>>),
    Step("CALL", 2, 100, <<Word("b0b"), Word("A11CE")>>),
    Step("CALLCODE", 1, 100, <<Word("dead")>>),
    Step("DELEGATECALL", 1, 100, <<>>),
    Step("DELEGATECALL", 2, 100, <<>>),
    Step("JUMP", 1, 100, <<>>),
    Step("PUSH1", 1, 5000001, <<>>) }

ComplianceTxs ==
  { Tx(<<"0x", "h11">>, from, to, <<>>) :
      from \in {Addr("a11ce"), Addr("A11CE"), Addr("DEAD")},
      to \in {Null, Addr("b0b"), Addr("1111"), Addr("DEAD")} }

AnalyzerTx == Tx(<<"0x", "h11">>, Addr("a11ce"), Addr("pyusd"), <<>>)

(***************************************************************************)
(* The node: blocks, transactions and traces it serves                     *)
(***************************************************************************)
\* number of blocks of the chain
MaxHead == 3

HashChunks ==
  << <<"h11", "h12", "h13">>, <<"h21", "h22", "h23">>, <<"h31", "h32", "h33">>,
     <<"h41", "h42", "h43">>, <<"h51", "h52", "h53">> >>

TransferInput(body) == <<"0x", "a9059cbb", "pad24", body, "amount64">>

\* transactions without their hash
DirectCall == Tx(Null, Addr("A11CE"), Addr("PYUSD"), <<"0x", "other">>)
Unrelated == Tx(Null, Addr("a11ce"), Addr("b0b"), <<>>)
PyusdTransfer == Tx(Null, Addr("DEAD"), Addr("pyusd"), TransferInput("b0b"))
OtherTokenTransfer == Tx(Null, Addr("a11ce"), Addr("b0b"), TransferInput("a11ce"))
DenylistedCall == Tx(Null, Addr("a11ce"), Addr("1111"), <<"0x", "other", "pad24", "pyusd">>)
FromPyusd == Tx(Null, Addr("pyusd"), Null, <<>>)
NoFrom == Tx(Null, Null, Addr("pyusd"), <<>>)

\* the block takes its transactions with the hashes of their positions
Stamped(b, txs) == [i \in 1..Len(txs) |-> [txs[i] EXCEPT !.hash = <<"0x", HashChunks[b][i]>>]]

\* the blocks that hold a token transaction: a transfer, or another call
PollBlocks == { <<Unrelated, PyusdTransfer>>, <<Unrelated, DirectCall>> }

\* a transfer to the token whose amount is missing
ShortTransfer == Tx(Null, Addr("a11ce"), Addr("pyusd"), <<"0x", "a9059cbb">>)

PipelineTxs ==
  {DirectCall, Unrelated, PyusdTransfer, OtherTokenTransfer, DenylistedCall,
   FromPyusd, NoFrom, ShortTransfer}

\* a transaction as it comes without a hash, and as tier 3 of
\* getBlockTransactions builds it from a trace entry without one
Hashless(tx) == {tx, [tx EXCEPT !.hash = <<"unknown-", "2", "-", "0">>]}

\* the list tier 3 of getBlockTransactions builds from the block trace of
\* one transaction in which a contract calls transfer of the token twice:
\* one entry per call, each with the transactionHash of the transaction
TracedMultiSend ==
  << [PyusdTransfer EXCEPT !.hash = <<"0x", HashChunks[2][1]>>],
     [PyusdTransfer EXCEPT !.hash = <<"0x", HashChunks[2][1]>>,
                           !.input = TransferInput("a11ce")] >>

\* blocks of one transaction of any kind with its hash, of one token
\* transaction without a hash, of the entries of one traced transaction, and
\* of two transactions the first of which takes one of the two branches
PipelineBlocks ==
  {Stamped(2, <<t>>) : t \in PipelineTxs}
    \cup {<<t>> : t \in Hashless(DirectCall) \cup Hashless(PyusdTransfer)}
    \cup {TracedMultiSend}
    \cup {Stamped(2, <<t, u>>) : t \in {DirectCall, PyusdTransfer}, u \in PipelineTxs}

\* traces the node returns for a transaction
CleanTrace == Trace(<<Step("JUMP", 1, 100, <<>>), Step("SSTORE", 1, 90, <<>>)>>, 21000, 0)
SpikeTrace == Trace(<<Step("ADD", 1, 100, <<>>), Step("ADD", 1, 151, <<>>)>>, 21000, 0)
ReentrantTrace ==
  Trace(<<Step("DELEGATECALL", 1, 100, <<>>), Step("DELEGATECALL", 2, 90, <<>>)>>, 21000, 0)
HeavyTrace == Trace(<<Step("PUSH1", 1, 100, <<>>)>>, 5000001, 0)
NodeTraces == {CleanTrace, SpikeTrace, ReentrantTrace, HeavyTrace}

\* what the node answers to debug_traceTransaction
NodeResponses ==
  {Sent("trace", t) : t \in NodeTraces}
    \cup {Sent(shape, Null) : shape \in {"malformed", "null", "timeout", "error"}}

\* the node has no trace for a parameter that is not a transaction hash: the
\* request fails
NodeAnswers(txHash) ==
  IF isValidTxHash(txHash) THEN NodeResponses
  ELSE {Sent(shape, Null) : shape \in {"timeout", "error"}}

Min(a, b) == IF a < b THEN a ELSE b
Max(a, b) == IF a > b THEN a ELSE b

(***************************************************************************)
(* monitorBlocks (monitor.js)                                              *)
(***************************************************************************)
\* variant: every poll initializes the cursor from the head
CursorUnset_always(cursor) == TRUE

\* !latestBlock
CursorUnset(cursor) == cursor = 0

\* variant: a head one block above the cursor is not taken up
HeadIsNew_lagging(head, cursor) == head > cursor + 1

\* currentBlock > latestBlock
HeadIsNew(head, cursor) == head > cursor

\* variant: the block after the cursor is passed over
FirstBlock_skip(cursor) == cursor + 2

\* let start = latestBlock + 1
FirstBlock(cursor) == cursor + 1

\* no poll iteration is forming batches
NoIteration == [cursor |-> 0, batches |-> <<>>]

\* variant: the last batch is as long as the others
BatchEnd_unclamped(from, head) == from + MAX_BLOCKS_PER_BATCH - 1

\* Math.min(start + MAX_BLOCKS_PER_BATCH - 1, currentBlock)
BatchEnd(from, head) == Min(from + MAX_BLOCKS_PER_BATCH - 1, head)

\* variant: the cursor stays when no block of the batch succeeded
CursorAfterBatch_onSuccess(cursor, batchEnd, successful) ==
  IF successful > 0 THEN batchEnd ELSE cursor

\* the cursor after a batch
CursorAfterBatch(cursor, batchEnd, successful) == batchEnd

\* variant: consecutive batches share a block
NextStart_overlap(from) == from + MAX_BLOCKS_PER_BATCH - 1

\* for (...; start += MAX_BLOCKS_PER_BATCH)
NextStart(from) == from + MAX_BLOCKS_PER_BATCH

POLL_INTERVAL_MS == 5000

\* startMonitoring calls monitorBlocks at once
StartCall == [by |-> "startMonitoring", delay |-> 0]

\* no setTimeout is pending
NoTimer == [by |-> "none", delay |-> 0]

\* variant: a failed initialization returns without a setTimeout
Rescheduled_exceptInit(path) ==
  IF path = "initFailed" THEN NoTimer ELSE [by |-> path, delay |-> POLL_INTERVAL_MS]

\* setTimeout(() => monitorBlocks(provider, io), POLL_INTERVAL_MS), in the
\* catch of the initialization and in the finally of the poll
Rescheduled(path) == [by |-> path, delay |-> POLL_INTERVAL_MS]

\* variant: the timer stays armed after it fired, as a setInterval does
Fired_interval(t) == t

\* a setTimeout fires once: nothing is pending after it
Fired(t) == NoTimer

\* monitorBlocks is called: by startMonitoring or by the timer
Invoke ==
  /\ pc = "timer"
  /\ timer # NoTimer
  /\ timer' = Fired(timer)
  /\ pc' = IF CursorUnset(latestBlock) THEN "init" ELSE "head"
  /\ UNCHANGED <<unitVars, traceVars, chain, traceFetcher, latestBlock, loopVars, pipes, logVars, storeVars>>

\* initialization of the cursor: the head query failed after its retries
InitFailed ==
  /\ pc = "init"
  /\ pc' = "timer"
  /\ timer' = Rescheduled("initFailed")
  /\ UNCHANGED <<unitVars, traceVars, chain, traceFetcher, latestBlock, loopVars, pipes, logVars, storeVars>>

\* initialization of the cursor from the head of the chain
InitCursor ==
  /\ pc = "init"
  /\ \E head \in 0..Len(chain) :
       /\ latestBlock' = head
       /\ initialCursor' = head
       /\ observedHead' = Max(observedHead, head)
  /\ pc' = "head"
  /\ UNCHANGED <<unitVars, traceVars, chain, traceFetcher, timer, loopVars, pipes, storeVars,
                 attemptLog, failedBlocks, processed, evaluated>>

\* the head query failed after its retries: catch, finally
HeadFailed ==
  /\ pc = "head"
  /\ pc' = "timer"
  /\ timer' = Rescheduled("headFailed")
  /\ UNCHANGED <<unitVars, traceVars, chain, traceFetcher, latestBlock, loopVars, pipes, logVars, storeVars>>

\* the head query returned
HeadRead ==
  /\ pc = "head"
  /\ \E head \in 0..Len(chain) :
       /\ currentBlock' = head
       /\ observedHead' = Max(observedHead, head)
       /\ IF HeadIsNew(head, latestBlock)
          THEN /\ start' = FirstBlock(latestBlock) /\ pc' = "batch" /\ timer' = timer
               /\ iteration' = [cursor |-> latestBlock, batches |-> <<>>]
          ELSE /\ start' = start /\ pc' = "timer" /\ timer' = Rescheduled("noNewBlock")
               /\ iteration' = iteration
  /\ UNCHANGED <<unitVars, traceVars, chain, traceFetcher, latestBlock, end, blockNumber, successfulBlocks,
                 pipes, storeVars, attemptLog, failedBlocks, initialCursor,
                 processed, evaluated>>

\* head of the loop over the batches
NextBatch ==
  /\ pc = "batch"
  /\ IF start <= currentBlock
     THEN /\ end' = BatchEnd(start, currentBlock)
          /\ successfulBlocks' = 0
          /\ blockNumber' = start
          /\ pc' = "block"
          /\ timer' = timer
          /\ iteration' = [iteration EXCEPT
                             !.batches = Append(@, <<start, BatchEnd(start, currentBlock)>>)]
     ELSE /\ pc' = "timer"
          /\ timer' = Rescheduled("batchesDone")
          /\ iteration' = NoIteration
          /\ UNCHANGED <<end, successfulBlocks, blockNumber>>
  /\ UNCHANGED <<unitVars, traceVars, chain, traceFetcher, latestBlock, currentBlock, start, pipes,
                 logVars, storeVars>>

\* processBlockSafely is called for the next block of the batch
StartBlock ==
  /\ pc = "block"
  /\ blockNumber <= end
  /\ Len(attemptLog) <= MaxHead
  /\ attemptLog' = Append(attemptLog, blockNumber)
  /\ pc' = "fetch"
  /\ UNCHANGED <<unitVars, traceVars, chain, traceFetcher, timer, latestBlock, loopVars, pipes, storeVars,
                 failedBlocks, initialCursor, observedHead, processed, evaluated>>

\* the batch is done: the cursor moves to its upper bound
BatchDone ==
  /\ pc = "block"
  /\ blockNumber > end
  /\ latestBlock' = CursorAfterBatch(latestBlock, end, successfulBlocks)
  /\ start' = NextStart(start)
  /\ pc' = "batch"
  /\ UNCHANGED <<unitVars, traceVars, chain, traceFetcher, timer, currentBlock, end, blockNumber, successfulBlocks,
                 iteration, pipes, logVars, storeVars>>

(***************************************************************************)
(* processBlockSafely (monitor.js)                                         *)
(***************************************************************************)
\* getBlockTransactions failed in all its tiers: success false
FetchFailed ==
  /\ pc = "fetch"
  /\ failedBlocks' = failedBlocks \cup {blockNumber}
  /\ blockNumber' = blockNumber + 1
  /\ pc' = "block"
  /\ UNCHANGED <<unitVars, traceVars, chain, traceFetcher, timer, latestBlock, currentBlock, start, end,
                 successfulBlocks, iteration, pipes, storeVars, attemptLog, initialCursor,
                 observedHead, processed, evaluated>>

\* the positions of a set in ascending order
RECURSIVE Ascending(_)
Ascending(slots) ==
  IF slots = {} THEN <<>>
  ELSE LET first == CHOOSE k \in slots : \A l \in slots : k <= l
       IN <<first>> \o Ascending(slots \ {first})

\* what getBlockTransactions can return for a block: all its transactions
\* (tier 1), or those whose fetch by hash was fulfilled, one at least (tier 2)
Returnable(blk) == {DOMAIN blk} \cup (SUBSET (DOMAIN blk) \ {{}})

\* getBlockTransactions returned: every transaction it returned is queued on
\* the limiter
FetchReturned ==
  /\ pc = "fetch"
  /\ \E slots \in Returnable(chain[blockNumber]) :
       pipes' = [k \in 1..Cardinality(slots) |->
                  [Pipe(chain[blockNumber][Ascending(slots)[k]])
                     EXCEPT !.slot = Ascending(slots)[k]]]
  /\ pc' = "transactions"
  /\ UNCHANGED <<unitVars, traceVars, chain, traceFetcher, timer, latestBlock, loopVars, logVars, storeVars>>

\* variant: one more call is let in
LimiterHasRoom_extra(activeCount) == activeCount <= MAX_CONCURRENT_TRACES

\* p-limit: a queued call starts while fewer than the limit are running
LimiterHasRoom(activeCount) == activeCount < MAX_CONCURRENT_TRACES

\* the limiter starts a queued processTransaction
Admit(i) ==
  /\ pc = "transactions"
  /\ pipes[i].pc = "queued"
  /\ LimiterHasRoom(Cardinality(InFlight))
  /\ pipes' = [pipes EXCEPT ![i] = Started(@)]
  /\ processed' = processed \cup {<<blockNumber, pipes[i].slot>>}
  /\ UNCHANGED <<unitVars, traceVars, chain, traceFetcher, timer, latestBlock, pc, loopVars, storeVars,
                 attemptLog, failedBlocks, initialCursor, observedHead, evaluated>>

\* saveTransaction returned or threw; then the trace is requested
SaveTransactionDone(i) ==
  /\ pc = "transactions"
  /\ pipes[i].pc = "saveTransaction"
  /\ \E threw \in BOOLEAN :
       pipes' = [pipes EXCEPT ![i] =
                   IF threw THEN Caught(@)
                   ELSE [@ EXCEPT !.pc = "trace", !.traceRequests = 1]]
  /\ UNCHANGED <<unitVars, traceVars, chain, traceFetcher, timer, latestBlock, pc, loopVars, logVars, storeVars>>

\* getTransactionTrace returned null
TraceUnavailable(i) ==
  /\ pc = "transactions"
  /\ pipes[i].pc = "trace"
  /\ \E first \in NodeAnswers(TxHashOf(pipes[i].tx)), second \in NodeResponses :
       LET got == FetchTrace(traceFetcher, TxHashOf(pipes[i].tx), first, second) IN
       /\ got.res = NoTrace
       /\ pipes' = [pipes EXCEPT ![i] =
            Done([@ EXCEPT !.nodeSaid = got.decisive, !.sends = got.sends], "noTrace")]
  /\ UNCHANGED <<unitVars, traceVars, chain, traceFetcher, timer, latestBlock, pc, loopVars,
                 logVars, storeVars>>

\* getTransactionTrace returned a trace: analyzeTrace and evaluateCompliance
TraceReturned(i) ==
  /\ pc = "transactions"
  /\ pipes[i].pc = "trace"
  /\ \E first \in NodeAnswers(TxHashOf(pipes[i].tx)), second \in NodeResponses :
       LET got == FetchTrace(traceFetcher, TxHashOf(pipes[i].tx), first, second) IN
       /\ got.res.shape = "trace"
       /\ pipes' = [pipes EXCEPT ![i] =
            Traced([@ EXCEPT !.nodeSaid = "trace", !.sends = got.sends],
                   got.res.trace, blockNumber)]
  /\ evaluated' = evaluated \cup {<<blockNumber, pipes[i].slot>>}
  /\ UNCHANGED <<unitVars, traceVars, chain, traceFetcher, timer, latestBlock, pc, loopVars,
                 storeVars, attemptLog, failedBlocks, initialCursor, observedHead,
                 processed>>

\* getTransactionTrace returned an object whose structLogs is not an array:
\* analyzeTrace runs on it, then trace.structLogs.filter of the rule engine
\* throws a TypeError, which processTransaction catches
TraceMalformed(i) ==
  /\ pc = "transactions"
  /\ pipes[i].pc = "trace"
  /\ \E first \in NodeAnswers(TxHashOf(pipes[i].tx)), second \in NodeResponses :
       LET got == FetchTrace(traceFetcher, TxHashOf(pipes[i].tx), first, second) IN
       /\ got.res.shape = "malformed"
       /\ pipes' = [pipes EXCEPT ![i] =
            Caught([@ EXCEPT !.nodeSaid = "malformed", !.analyzed = TRUE,
                             !.rulesRun = RulesRun(got.res.shape),
                             !.sends = got.sends])]
  /\ UNCHANGED <<unitVars, traceVars, chain, traceFetcher, timer, latestBlock, pc, loopVars,
                 logVars, storeVars>>

\* saveAlert (it may throw, which is logged), notifyClients and the channels
\* (each may fail, which is logged)
Dispatch(i) ==
  /\ pc = "transactions"
  /\ pipes[i].pc = "dispatch"
  /\ LET alert == AssembledAlert(pipes[i], blockNumber) IN
     \E saved \in BOOLEAN :
       LET sinks == SinksAfterStore(pipes[i].branch, alert, saved) IN
       \E failed \in Failing(sinks) :
         /\ alerts' = IF saved THEN saveAlert(alerts, alert) ELSE alerts
         /\ pipes' = [pipes EXCEPT ![i] =
              Done([@ EXCEPT !.dispatched =
                      Append(@, [alert |-> alert, saved |-> saved,
                                 sinks |-> sinks, failed |-> failed])],
                   "alerted")]
  /\ UNCHANGED <<unitVars, traceVars, chain, traceFetcher, timer, latestBlock, pc, loopVars, logVars, callLog, txVars>>

\* variant: a call that ended in the catch of processTransaction counts as
\* failed
Failed_caught(p) == p.outcome \in {"rejected", "error"}

\* result === false: the .catch of the limited call returned false, which
\* it does for a rejected processTransaction only
Failed(p) == p.outcome = "rejected"

\* the object processBlockSafely returns after Promise.all
BlockResult(ps) ==
  LET failedTxs == Cardinality({i \in DOMAIN ps : Failed(ps[i])})
  IN [success |-> TRUE, totalTxs |-> Len(ps),
      successfulTxs |-> Len(ps) - failedTxs, failedTxs |-> failedTxs]

\* variant: the block ends with the first pipeline that ends
AllSettled_any(ps) == \E i \in 1..Len(ps) : ps[i].pc = "done"

\* await Promise.all(transactions.map(...)): every promise has resolved
AllSettled(ps) == \A i \in 1..Len(ps) : ps[i].pc = "done"

\* variant: the cursor moves with every block that was processed
CursorAfterBlock_advance(cursor, blockNo) == blockNo

\* processBlockSafely returns its result object and assigns nothing else
CursorAfterBlock(cursor, blockNo) == cursor

\* Promise.all resolved: success true
BlockDone ==
  /\ pc = "transactions"
  /\ AllSettled(pipes)
  /\ latestBlock' = CursorAfterBlock(latestBlock, blockNumber)
  /\ successfulBlocks' = successfulBlocks + (IF BlockResult(pipes).success THEN 1 ELSE 0)
  /\ blockNumber' = blockNumber + 1
  /\ pipes' = <<>>
  /\ pc' = "block"
  /\ UNCHANGED <<unitVars, traceVars, chain, traceFetcher, timer, currentBlock, start, end,
                 iteration, logVars, storeVars>>

AdmitTransaction == \E i \in 1..Len(pipes) : Admit(i)
SaveTransactionReturns == \E i \in 1..Len(pipes) : SaveTransactionDone(i)
TraceFetchFails == \E i \in 1..Len(pipes) : TraceUnavailable(i)
TraceFetchReturns == \E i \in 1..Len(pipes) : TraceReturned(i)
TraceFetchMalformed == \E i \in 1..Len(pipes) : TraceMalformed(i)
DispatchAlert == \E i \in 1..Len(pipes) : Dispatch(i)

Next ==
  \/ Invoke \/ InitFailed \/ InitCursor \/ HeadFailed \/ HeadRead
  \/ NextBatch \/ StartBlock \/ BatchDone
  \/ FetchFailed \/ FetchReturned \/ BlockDone
  \/ AdmitTransaction \/ SaveTransactionReturns
  \/ TraceFetchFails \/ TraceFetchReturns \/ TraceFetchMalformed \/ DispatchAlert

(***************************************************************************)
(* The node streams a trace; the analyzer and the rules run on it          *)
(***************************************************************************)
Analyze(logs) ==
  /\ structLogs' = logs
  /\ report' = analyzeTrace(Trace(logs, traceGas, returnValueLen))
  /\ issues' = evaluateCompliance(Trace(logs, traceGas, returnValueLen), evalTx)
  /\ UNCHANGED <<unitVars, traceGas, returnValueLen, evalTx, pollVars, storeVars>>

\* a trace of up to MaxFree arbitrary steps
FreeStep(steps) ==
  /\ Len(structLogs) < MaxFree
  /\ \E s \in steps : Analyze(Append(structLogs, s))

\* a longer trace: the last step occurs again
RepeatStep ==
  /\ Len(structLogs) >= MaxFree
  /\ Len(structLogs) < MaxFree + MaxRepeat
  /\ Analyze(Append(structLogs, structLogs[Len(structLogs)]))

AnalyzerFreeStep == FreeStep(AnalyzerSteps)
ComplianceFreeStep == FreeStep(ComplianceSteps)

(***************************************************************************)
(* withRetry (utils.js)                                                    *)
(***************************************************************************)
MAX_RETRIES == 2
RETRY_DELAY_MS == 2000

\* what the operation handed to withRetry returns or throws
RetryValues == {"v1", "v2"}
RetryErrors == {"e1", "e2", "e3", "e4"}

Returned(value) == [ok |-> TRUE, value |-> value]
Thrown(error) == [ok |-> FALSE, value |-> error]

\* variant: one more attempt is made
RetriesExhausted_late(retryCount) == retryCount > MAX_RETRIES

\* retryCount >= MAX_RETRIES
RetriesExhausted(retryCount) == retryCount >= MAX_RETRIES

\* withRetry(fn) is entered with retryCount = 0
newRetrier ==
  [pc |-> "calling", retryCount |-> 0, attempts |-> <<>>, delays |-> <<>>,
   result |-> Null]

\* no withRetry call is under way
idleRetrier == [newRetrier EXCEPT !.pc = "idle"]

\* return await fn(): the operation returned
RetryCallReturns ==
  /\ retrier.pc = "calling"
  /\ \E v \in RetryValues :
       retrier' = [retrier EXCEPT !.attempts = Append(@, Returned(v)),
                                  !.pc = "returned",
                                  !.result = Returned(v)]
  /\ UNCHANGED <<fetcher, traceVars, pollVars, storeVars>>

\* the operation threw: rethrow when the retries are used up, or log and
\* wait
RetryCallThrows ==
  /\ retrier.pc = "calling"
  /\ \E e \in RetryErrors :
       retrier' = [retrier EXCEPT !.attempts = Append(@, Thrown(e)),
                                  !.pc = IF RetriesExhausted(retrier.retryCount)
                                         THEN "threw" ELSE "waiting",
                                  !.result = IF RetriesExhausted(retrier.retryCount)
                                             THEN Thrown(e) ELSE @]
  /\ UNCHANGED <<fetcher, traceVars, pollVars, storeVars>>

\* the timer of RETRY_DELAY_MS fired: withRetry(fn, retryCount + 1)
RetryDelayElapsed ==
  /\ retrier.pc = "waiting"
  /\ retrier' = [retrier EXCEPT !.delays = Append(@, RETRY_DELAY_MS),
                                !.retryCount = @ + 1,
                                !.pc = "calling"]
  /\ UNCHANGED <<fetcher, traceVars, pollVars, storeVars>>

(***************************************************************************)
(* getBlockTransactions (utils.js), called by processBlockSafely           *)
(***************************************************************************)
\* results.forEach: the fulfilled, non-null results in the order of the
\* hash list
RECURSIVE Fulfilled(_, _, _)
Fulfilled(xs, got, i) ==
  IF i > Len(xs) THEN <<>>
  ELSE (IF i \in got THEN <<xs[i]>> ELSE <<>>) \o Fulfilled(xs, got, i + 1)

\* tier 3: the well-formed trace entries become transactions; an entry
\* without transactionHash gets `unknown-${blockNumber}-${index}`
Traced3(xs, wellFormed, hashed, blockNo) ==
  LET kept == Fulfilled(xs, wellFormed, 1)
  IN [i \in 1..Len(kept) |->
        [kept[i] EXCEPT !.hash = IF hashed THEN @
                                 ELSE <<"unknown-", ToString(blockNo), "-",
                                        ToString(i - 1)>>]]

\* variant: the tier after the first is skipped
FallbackTier_skip(tier) == tier + 2

\* the catch block of a tier holds the next tier
FallbackTier(tier) == tier + 1

\* variant: tier 2 returns only a complete list
Tier2Enough_complete(transactions, txHashes) == Len(transactions) = Len(txHashes)

\* if (transactions.length > 0) return transactions
Tier2Enough(transactions, txHashes) == Len(transactions) > 0

\* a getBlockTransactions call starts with tier 1
newCall(f) ==
  [f EXCEPT !.pc = "tier", !.tier = 1, !.tiers = <<>>, !.failed = {},
            !.got = {}, !.settled = FALSE, !.result = Null]

\* processBlockSafely is entered for a block with the transactions txs
newFetcher(txs) ==
  newCall([pc |-> "tier", txs |-> txs, calls |-> 0, tier |-> 1, tiers |-> <<>>,
           failed |-> {}, got |-> {}, settled |-> FALSE, exhausted |-> FALSE,
           result |-> Null, report |-> "none"])

idleFetcher == [newFetcher(<<>>) EXCEPT !.pc = "idle"]

\* a tier failed: its catch block runs the next tier
TierFailed(f) ==
  [f EXCEPT !.tiers = Append(@, f.tier), !.failed = @ \cup {f.tier},
            !.tier = FallbackTier(f.tier), !.pc = "tier"]

\* tier 1: provider.getBlock(blockNumber, true) returned the block
Tier1Returns ==
  /\ fetcher.pc = "tier" /\ fetcher.tier = 1
  /\ fetcher' = [fetcher EXCEPT !.tiers = Append(@, 1), !.result = fetcher.txs,
                                !.pc = "returned"]
  /\ UNCHANGED <<retrier, traceVars, pollVars, storeVars>>

\* tier 1 threw, or returned no block
Tier1Fails ==
  /\ fetcher.pc = "tier" /\ fetcher.tier = 1
  /\ fetcher' = TierFailed(fetcher)
  /\ UNCHANGED <<retrier, traceVars, pollVars, storeVars>>

\* tier 2: provider.getBlock(blockNumber) threw or returned no hash list
Tier2BlockFails ==
  /\ fetcher.pc = "tier" /\ fetcher.tier = 2
  /\ fetcher' = TierFailed(fetcher)
  /\ UNCHANGED <<retrier, traceVars, pollVars, storeVars>>

\* tier 2: the hash list arrived; the transactions are requested by hash
Tier2HashList ==
  /\ fetcher.pc = "tier" /\ fetcher.tier = 2
  /\ fetcher' = [fetcher EXCEPT !.pc = "hashes"]
  /\ UNCHANGED <<retrier, traceVars, pollVars, storeVars>>

\* tier 2: Promise.allSettled settled; the fetches of the positions in got
\* were fulfilled, the others failed after their retries or returned null
Tier2Settled ==
  /\ fetcher.pc = "hashes"
  /\ \E got \in SUBSET DOMAIN fetcher.txs :
       LET transactions == Fulfilled(fetcher.txs, got, 1) IN
       fetcher' =
         IF Tier2Enough(transactions, fetcher.txs)
         THEN [fetcher EXCEPT !.tiers = Append(@, 2), !.got = got,
                              !.result = transactions, !.pc = "returned"]
         ELSE [TierFailed(fetcher) EXCEPT !.got = got, !.settled = TRUE]
  /\ UNCHANGED <<retrier, traceVars, pollVars, storeVars>>

\* tier 3: debug_traceBlockByNumber returned its entries
Tier3Returns ==
  /\ fetcher.pc = "tier" /\ fetcher.tier = 3
  /\ \E wellFormed \in SUBSET DOMAIN fetcher.txs, hashed \in BOOLEAN :
       fetcher' = [fetcher EXCEPT !.tiers = Append(@, 3),
                                  !.result = Traced3(fetcher.txs, wellFormed, hashed, 1),
                                  !.pc = "returned"]
  /\ UNCHANGED <<retrier, traceVars, pollVars, storeVars>>

\* tier 3 failed after its retries: getBlockTransactions throws
Tier3Fails ==
  /\ fetcher.pc = "tier" /\ fetcher.tier = 3
  /\ fetcher' = [TierFailed(fetcher) EXCEPT !.pc = "threw",
                                          !.exhausted = @ \/ fetcher.settled]
  /\ UNCHANGED <<retrier, traceVars, pollVars, storeVars>>

\* withRetry of processBlockSafely calls getBlockTransactions again
FetchRetried ==
  /\ fetcher.pc = "threw"
  /\ ~RetriesExhausted(fetcher.calls)
  /\ fetcher' = newCall([fetcher EXCEPT !.calls = @ + 1])
  /\ UNCHANGED <<retrier, traceVars, pollVars, storeVars>>

\* processBlockSafely: the transactions were handed to processTransaction
\* and Promise.all resolved: success true
ReportSuccess ==
  /\ fetcher.pc = "returned"
  /\ fetcher' = [fetcher EXCEPT !.report = "success", !.pc = "reported"]
  /\ UNCHANGED <<retrier, traceVars, pollVars, storeVars>>

\* processBlockSafely: withRetry rethrew: success false
ReportFailure ==
  /\ fetcher.pc = "threw"
  /\ RetriesExhausted(fetcher.calls)
  /\ fetcher' = [fetcher EXCEPT !.report = "failure", !.pc = "reported"]
  /\ UNCHANGED <<retrier, traceVars, pollVars, storeVars>>

(***************************************************************************)
(* Initial states                                                          *)
(***************************************************************************)
TraceIdle ==
  /\ structLogs = <<>> /\ traceGas = 0 /\ returnValueLen = 0
  /\ evalTx = AnalyzerTx /\ report = emptyReport /\ issues = <<>>

PollStart(chains, cursors, fetchers) ==
  /\ chain \in chains
  /\ traceFetcher \in fetchers
  /\ latestBlock \in cursors
  /\ initialCursor = latestBlock
  /\ pc = "timer"
  /\ timer = StartCall
  /\ currentBlock = 0 /\ start = 0 /\ end = 0 /\ blockNumber = 0
  /\ successfulBlocks = 0
  /\ iteration = NoIteration
  /\ pipes = <<>>
  /\ attemptLog = <<>> /\ failedBlocks = {} /\ observedHead = 0
  /\ processed = {} /\ evaluated = {}

AlertsEmpty == alerts = {} /\ callLog = <<>>

StoreEmpty == AlertsEmpty /\ txStore = {} /\ saves = <<>>

UnitIdle == retrier = idleRetrier /\ fetcher = idleFetcher

\* a chain whose odd blocks hold no token transaction and whose even blocks
\* are blk
Alternating(blk) ==
  [b \in 1..MaxHead |-> Stamped(b, IF b % 2 = 1 THEN <<Unrelated>> ELSE blk)]
PollChains == {Alternating(blk) : blk \in PollBlocks}

\* STARTING_BLOCK: 0 when not configured
Init ==
  /\ TraceIdle
  /\ PollStart(PollChains, {0, 1}, TraceFetchers)
  /\ StoreEmpty
  /\ UnitIdle

Spec == Init /\ [][Next]_vars

\* the poller under fair scheduling, on the chain whose even blocks hold a
\* call of the token: setTimeout fires, awaited calls return or fail
AlternatingChain == Alternating(<<Unrelated, DirectCall>>)
InitFair ==
  /\ TraceIdle
  /\ PollStart({AlternatingChain}, {0, 1}, TraceFetchers)
  /\ StoreEmpty
  /\ UnitIdle
FairSpec == InitFair /\ [][Next]_vars /\ WF_vars(Next)

\* the same, with a head query that does not fail forever
SpecCoverage ==
  InitFair /\ [][Next]_vars /\ WF_vars(Next) /\ SF_vars(HeadRead) /\ SF_vars(InitCursor)

\* one block of PipelineBlocks, after an empty block
InitPipeline ==
  /\ TraceIdle
  /\ PollStart({<< <<>>, blk >> : blk \in PipelineBlocks}, {0, 1}, TraceFetchers)
  /\ StoreEmpty
  /\ UnitIdle

SpecPipeline == InitPipeline /\ [][Next]_vars

PollIdle == PollStart({<< <<>> >>}, {1}, {"validating"})

TraceInit(gases, retLens, txs) ==
  /\ structLogs = <<>>
  /\ traceGas \in gases
  /\ returnValueLen \in retLens
  /\ evalTx \in txs
  /\ report = analyzeTrace(Trace(<<>>, traceGas, returnValueLen))
  /\ issues = evaluateCompliance(Trace(<<>>, traceGas, returnValueLen), evalTx)
  /\ PollIdle
  /\ StoreEmpty
  /\ UnitIdle

InitAnalyzer == TraceInit({0, 5000000, 5000001}, {0, 8192, 8193}, {AnalyzerTx})
NextAnalyzer == AnalyzerFreeStep \/ RepeatStep
SpecAnalyzer == InitAnalyzer /\ [][NextAnalyzer]_vars

InitCompliance == TraceInit({0, 5000001}, {0}, ComplianceTxs)
NextCompliance == ComplianceFreeStep \/ RepeatStep
SpecCompliance == InitCompliance /\ [][NextCompliance]_vars

(***************************************************************************)
(* saveAlert called directly on the store                                  *)
(***************************************************************************)
\* number of saveAlert calls
MaxCalls == 3

\* alerts as monitor.js assembles them, and without severity as
\* blockMonitor.js assembles them
StoreAlerts ==
  LET full == { Alert(<<"0x", h>>, 1, Str(<<r>>), Str(<<d>>), emptyReport) :
                  h \in {"h11", "h12"},
                  r \in {"BLACKLISTED_ADDRESS", "HIGH_GAS_USAGE"},
                  d \in {"first", "second"} }
  IN full \cup { [f \in DOMAIN a \ {"severity"} |-> a[f]] : a \in full }

\* saveAlert returned
SaveAlertCall ==
  /\ Len(callLog) < MaxCalls
  /\ \E a \in StoreAlerts :
       /\ alerts' = saveAlert(alerts, a)
       /\ callLog' = Append(callLog, [alert |-> a, ok |-> TRUE])
  /\ UNCHANGED <<unitVars, traceVars, pollVars, txVars>>

\* saveAlert threw an error other than the duplicate key error
SaveAlertThrows ==
  /\ Len(callLog) < MaxCalls
  /\ \E a \in StoreAlerts :
       callLog' = Append(callLog, [alert |-> a, ok |-> FALSE])
  /\ UNCHANGED <<unitVars, traceVars, pollVars, alerts, txVars>>

\* the collection holds rows documents, the newest of timestamp
\* TransactionLimit
StoredRows(rows) ==
  {Row(ts, <<"0x", ToString(ts)>>) : ts \in (TransactionLimit - rows + 1)..TransactionLimit}

\* the transactions saved: two new ones and the newest of the stored ones
SavedHashes == {<<"0x", "h11">>, <<"0x", "h12">>, <<"0x", ToString(TransactionLimit)>>}

SaveTransactionCalled ==
  \E s \in DOMAIN saves, h \in SavedHashes :
    /\ SaveStart(s, Row(TransactionLimit + s, h))
    /\ UNCHANGED <<unitVars, traceVars, pollVars, alerts, callLog>>

SaveTransactionStep ==
  /\ \E s \in DOMAIN saves :
       \/ SaveFindOne(s) \/ SaveInsert(s) \/ SaveCount(s)
       \/ SaveFindOldest(s) \/ SaveDeleteMany(s)
  /\ UNCHANGED <<unitVars, traceVars, pollVars, alerts, callLog>>

InitTxStore ==
  /\ TraceIdle /\ PollIdle /\ AlertsEmpty /\ UnitIdle
  /\ txStore \in {StoredRows(TransactionLimit - 1), StoredRows(TransactionLimit)}
  /\ saves = [s \in 1..MaxSaves |-> idleSave]

NextTxStore == SaveTransactionCalled \/ SaveTransactionStep
SpecTxStore == InitTxStore /\ [][NextTxStore]_vars

InitStore == TraceIdle /\ PollIdle /\ StoreEmpty /\ UnitIdle
NextStore == SaveAlertCall \/ SaveAlertThrows
SpecStore == InitStore /\ [][NextStore]_vars

(***************************************************************************)
(* withRetry and processBlockSafely on their own                           *)
(***************************************************************************)
InitRetry ==
  /\ TraceIdle /\ PollIdle /\ StoreEmpty
  /\ retrier = newRetrier
  /\ fetcher = idleFetcher
NextRetry == RetryCallReturns \/ RetryCallThrows \/ RetryDelayElapsed
SpecRetry == InitRetry /\ [][NextRetry]_vars

\* blocks of up to three transactions
FetchBlocks ==
  LET kinds == {DirectCall, Unrelated}
  IN {<<>>} \cup {<<t>> : t \in kinds} \cup {<<t, u>> : t \in kinds, u \in kinds}
       \cup {<<t, u, v>> : t \in kinds, u \in kinds, v \in kinds}

InitFetch ==
  /\ TraceIdle /\ PollIdle /\ StoreEmpty
  /\ retrier = idleRetrier
  /\ \E blk \in FetchBlocks : fetcher = newFetcher(Stamped(1, blk))
NextFetch ==
  \/ Tier1Returns \/ Tier1Fails \/ Tier2BlockFails \/ Tier2HashList
  \/ Tier2Settled \/ Tier3Returns \/ Tier3Fails \/ FetchRetried
  \/ ReportSuccess \/ ReportFailure
SpecFetch == InitFetch /\ [][NextFetch]_vars

(***************************************************************************)
(* Properties of the poller                                                *)
(***************************************************************************)
\* positions of a transaction in a block
TxSlots == UNION {DOMAIN blk : blk \in PollBlocks}

\* the transaction at position i of block b references the monitored token
\* and carries a sender
TokenTxAt(b, i) ==
  /\ b \in DOMAIN chain
  /\ i \in DOMAIN chain[b]
  /\ chain[b][i].from # Null
  /\ \/ ToLowerCase(chain[b][i].to) = Addr("pyusd")
     \/ ToLowerCase(chain[b][i].from) = Addr("pyusd")
     \/ \E k \in DOMAIN chain[b][i].input : chain[b][i].input[k] = "pyusd"

\* block b is above the initial cursor and at or below an observed head
InRange(b) == b > initialCursor /\ b <= observedHead

\* the pipeline of transaction i of block b ended without an evaluation
EndedUnevaluated(b, i) ==
  /\ pc = "transactions"
  /\ blockNumber = b
  /\ \E k \in DOMAIN pipes :
       pipes[k].slot = i /\ pipes[k].outcome \in {"noTrace", "error"}

\* getBlockTransactions returned block b without its transaction i
Dropped(b, i) ==
  /\ pc = "transactions"
  /\ blockNumber = b
  /\ \A k \in DOMAIN pipes : pipes[k].slot # i

\* block b was handed to processBlockSafely
Attempted(b) == \E k \in DOMAIN attemptLog : attemptLog[k] = b

C2_CursorMonotone == [][latestBlock' >= latestBlock]_vars

\* the cursor advanced and a later head query returned a lower block number
C2_Witness ==
  /\ pc = "timer"
  /\ latestBlock > initialCursor
  /\ currentBlock < latestBlock
  /\ attemptLog # <<>>

\* C3: when a batch finishes the cursor is set to its upper bound whether or
\* not its blocks failed, and no transaction of a failed block is processed
C3_BatchEndSetsCursor ==
  /\ [][(pc = "block" /\ blockNumber > end /\ pc' = "batch") => latestBlock' = end]_vars
  /\ [](\A p \in processed : p[1] \notin failedBlocks)
  /\ [](\A b \in failedBlocks :
          Cardinality({k \in DOMAIN attemptLog : attemptLog[k] = b}) = 1)

\* a batch in which every block failed moved the cursor, and polling went on
C3_Witness ==
  /\ pc = "batch"
  /\ successfulBlocks = 0
  /\ latestBlock = end
  /\ latestBlock > initialCursor
  /\ \A b \in (start - MAX_BLOCKS_PER_BATCH)..end : b \in failedBlocks

\* C4: blocks are attempted in strictly ascending order, none twice
C4_AscendingAttempts ==
  \A j \in DOMAIN attemptLog : \A k \in DOMAIN attemptLog :
    j < k => attemptLog[j] < attemptLog[k]

\* three blocks were attempted over two batches and the first one failed
C4_Witness ==
  /\ Len(attemptLog) >= 3
  /\ attemptLog[1] \in failedBlocks
  /\ attemptLog[Len(attemptLog)] > attemptLog[1] + MAX_BLOCKS_PER_BATCH - 1

(***************************************************************************)
(* Properties of processTransaction                                        *)
(***************************************************************************)
\* neither address is the token and the input does not contain it
NoTokenReference(tx) ==
  /\ ToLowerCase(tx.to) # Addr("pyusd")
  /\ ToLowerCase(tx.from) # Addr("pyusd")
  /\ \A k \in DOMAIN tx.input : tx.input[k] # "pyusd"

\* C5 as stated: for a transaction that does not reference the token no
\* trace request is issued (violated by monitor.js)
C5_NoTraceForUnrelated ==
  \A i \in DOMAIN pipes :
    NoTokenReference(pipes[i].tx) => pipes[i].traceRequests = 0

\* the trace of transaction i was analyzed and the rules were evaluated
EvaluatedPipe(i) ==
  pipes[i].pc = "dispatch" \/ pipes[i].outcome \in {"clean", "alerted"}

\* C6 as stated: a transaction with k issues gets exactly k alerts, each with
\* the rule and details of one issue; none when k = 0 (violated by monitor.js)
C6_OneAlertPerIssue ==
  \A i \in DOMAIN pipes :
    (EvaluatedPipe(i) /\ pipes[i].pc = "done") =>
      /\ Len(pipes[i].dispatched) = Len(pipes[i].flags)
      /\ \A j \in DOMAIN pipes[i].dispatched :
           /\ pipes[i].dispatched[j].alert.rule = Str(<<pipes[i].flags[j].rule>>)
           /\ pipes[i].dispatched[j].alert.details = Str(pipes[i].flags[j].details)

\* the address, compared without regard to case, is in the denylist
Denylisted(a) == ToLowerCase(a) \in {<<"0x", "1111">>, <<"0x", "dead">>}

BlacklistIssues(flags) == {j \in DOMAIN flags : flags[j].rule = "BLACKLISTED_ADDRESS"}

\* C7 as stated: a transaction whose to or from is in the denylist,
\* case-insensitively, gets exactly one BLACKLISTED_ADDRESS issue; when that
\* is the only issue one alert is assembled, and a successful write leaves
\* one stored alert (violated by evaluateCompliance)
C7_Blacklist ==
  \A i \in DOMAIN pipes :
    (EvaluatedPipe(i) /\ (Denylisted(pipes[i].tx.to) \/ Denylisted(pipes[i].tx.from))) =>
      /\ Cardinality(BlacklistIssues(pipes[i].flags)) = 1
      /\ (Len(pipes[i].flags) = 1 /\ pipes[i].pc = "done") =>
           /\ Len(pipes[i].dispatched) = 1
           /\ pipes[i].dispatched[1].saved =>
                Cardinality(DocsOf(alerts, TxHashOf(pipes[i].tx))) = 1

(***************************************************************************)
(* Properties of analyzeTrace                                              *)
(***************************************************************************)
StepsOf(ops) == {k \in DOMAIN structLogs : structLogs[k].op \in ops}

\* no risky opcode, no step above one and a half times the gas of the step
\* before it, total gas and return data not above their thresholds
QuietTrace ==
  /\ StepsOf({"DELEGATECALL", "CALLCODE", "SELFDESTRUCT", "CREATE", "CREATE2"}) = {}
  /\ \A k \in DOMAIN structLogs :
       k > 1 => 2 * structLogs[k].gas <= 3 * structLogs[k - 1].gas
  /\ FinalGas(CurrentTrace) <= AnalyzerGasLimit
  /\ returnValueLen <= ReturnDataLimit

\* neither JUMP nor JUMPI occurs more than five times
FewJumps ==
  /\ Cardinality(StepsOf({"JUMP"})) <= JumpFrequencyLimit
  /\ Cardinality(StepsOf({"JUMPI"})) <= JumpFrequencyLimit

DelegateDepths == {structLogs[k].depth : k \in StepsOf({"DELEGATECALL"})}

TwoCallsSameKey ==
  /\ Len(callLog) >= 2
  /\ callLog[Len(callLog) - 1].ok
  /\ callLog[Len(callLog)].ok
  /\ callLog[Len(callLog) - 1].alert.txHash = callLog[Len(callLog)].alert.txHash
  /\ callLog[Len(callLog) - 1].alert.rule = callLog[Len(callLog)].alert.rule

\* C10: two saveAlert calls in sequence with the same txHash and rule leave
\* exactly one stored alert of that key, with the payload of the second call
C10_UpsertIdempotent ==
  TwoCallsSameKey =>
    LET second == callLog[Len(callLog)].alert
        docs == DocsOf(alerts, second.txHash)
    IN /\ Cardinality(docs) = 1
       /\ \A d \in docs : \A f \in DOMAIN second : f \in DOMAIN d /\ d[f] = second[f]

\* two calls with the same key and different details; the second is stored
C10_Witness ==
  /\ TwoCallsSameKey
  /\ callLog[Len(callLog) - 1].alert.details # callLog[Len(callLog)].alert.details
  /\ \E d \in alerts : d.details = callLog[Len(callLog)].alert.details

(***************************************************************************)
(* Properties of getBlockTransactions and withRetry                        *)
(***************************************************************************)
\* the tiers the current getBlockTransactions call has entered
InvokedTiers ==
  {fetcher.tiers[k] : k \in DOMAIN fetcher.tiers}
    \cup (IF fetcher.pc \in {"tier", "hashes"} THEN {fetcher.tier} ELSE {})

\* C11: within one getBlockTransactions call tier 2 is entered only after
\* tier 1 failed and tier 3 only after tier 2 failed; when tier 1 succeeds
\* the other tiers are not entered
C11_TierOrder ==
  /\ \A t \in InvokedTiers : t \in {1, 2, 3} /\ (t > 1 => (t - 1) \in fetcher.failed)
  /\ \A j \in DOMAIN fetcher.tiers : \A k \in DOMAIN fetcher.tiers :
       j < k => fetcher.tiers[j] < fetcher.tiers[k]
  /\ (fetcher.pc \in {"returned", "reported"} /\ 1 \notin fetcher.failed)
       => InvokedTiers = {1}

\* a call went through the three tiers and tier 3 returned
C11_Witness ==
  /\ fetcher.pc = "returned"
  /\ fetcher.tiers = <<1, 2, 3>>
  /\ fetcher.failed = {1, 2}
  /\ fetcher.calls > 0

\* tier 1 failed and tier 2 returned some, not all, of the transactions
PartialTier2 ==
  /\ 1 \in fetcher.failed
  /\ Cardinality(fetcher.got) >= 1
  /\ Cardinality(fetcher.got) < Len(fetcher.txs)

\* position in the hash list of the block of a returned transaction
HashPosition(tx) == CHOOSE i \in DOMAIN fetcher.txs : fetcher.txs[i].hash = tx.hash

\* C12: when tier 1 fails and tier 2 obtains m of the n transactions,
\* 1 <= m < n, the fetcher returns exactly those m in the order of the hash
\* list, tier 3 is not entered and the block is reported as processed
C12_PartialTier2 ==
  PartialTier2 =>
    /\ fetcher.pc \in {"returned", "reported"}
    /\ Len(fetcher.result) = Cardinality(fetcher.got)
    /\ \A j \in DOMAIN fetcher.result :
         /\ HashPosition(fetcher.result[j]) \in fetcher.got
         /\ fetcher.result[j] = fetcher.txs[HashPosition(fetcher.result[j])]
    /\ \A j \in DOMAIN fetcher.result : \A k \in DOMAIN fetcher.result :
         j < k => HashPosition(fetcher.result[j]) < HashPosition(fetcher.result[k])
    /\ 3 \notin InvokedTiers
    /\ fetcher.pc = "reported" => fetcher.report = "success"

\* the first and the third of three transactions were obtained and the block
\* was reported as processed
C12_Witness ==
  /\ PartialTier2
  /\ Len(fetcher.txs) = 3
  /\ fetcher.got = {1, 3}
  /\ fetcher.report = "success"

\* C16: withRetry calls the operation at most MAX_RETRIES + 1 times, each
\* further call after a wait of RETRY_DELAY_MS; it returns the result of the
\* first call that succeeds and calls no more; when every call fails it
\* rethrows the error of the last call
C16_WithRetry ==
  /\ Len(retrier.attempts) <= MAX_RETRIES + 1
  /\ \A k \in DOMAIN retrier.attempts :
       k < Len(retrier.attempts) => ~retrier.attempts[k].ok
  /\ Len(retrier.delays) =
       (IF retrier.pc \in {"calling", "idle"} THEN Len(retrier.attempts)
        ELSE Len(retrier.attempts) - 1)
  /\ \A k \in DOMAIN retrier.delays : retrier.delays[k] = RETRY_DELAY_MS
  /\ retrier.pc = "returned" =>
       /\ retrier.attempts[Len(retrier.attempts)].ok
       /\ retrier.result = retrier.attempts[Len(retrier.attempts)]
  /\ retrier.pc = "threw" =>
       /\ Len(retrier.attempts) = MAX_RETRIES + 1
       /\ ~retrier.attempts[Len(retrier.attempts)].ok
       /\ retrier.result = retrier.attempts[Len(retrier.attempts)]

\* every call failed, and the error rethrown is the last one, not the first
C16_Witness ==
  /\ retrier.pc = "threw"
  /\ Len(retrier.attempts) = MAX_RETRIES + 1
  /\ retrier.attempts[1].value # retrier.result.value
  /\ retrier.result.value = retrier.attempts[MAX_RETRIES + 1].value

(***************************************************************************)
(* Properties of the trace fetch and of the rules                          *)
(***************************************************************************)
\* C13 as stated: when the response to the trace request has a structLogs
\* that is not an array, the trace is reported unavailable and the pipeline
\* stops: no analysis, no rule evaluation, no alert, on every path of the
\* fetcher (violated on its retry path)
C13_MalformedStops ==
  \A i \in DOMAIN pipes :
    pipes[i].nodeSaid = "malformed" =>
      /\ ~pipes[i].analyzed
      /\ pipes[i].outcome = "noTrace"
      /\ pipes[i].dispatched = <<>>

CallSteps == {k \in DOMAIN structLogs : structLogs[k].op = "CALL"}

FloodIssues == {k \in DOMAIN issues : issues[k].rule = "INTERNAL_TRANSFER_FLOOD"}

\* C14: INTERNAL_TRANSFER_FLOOD fires exactly when more than five steps of
\* the trace are CALL steps, once, and its details report their number
C14_TransferFlood ==
  /\ (FloodIssues # {}) <=> (Cardinality(CallSteps) > 5)
  /\ Cardinality(FloodIssues) <= 1
  /\ \A k \in FloodIssues :
       issues[k].details =
         <<ToString(Cardinality(CallSteps)), " internal transfers detected">>

\* six CALL steps: the rule fired with the count 6
C14_Witness ==
  /\ Cardinality(CallSteps) = 6
  /\ \E k \in FloodIssues :
       issues[k].details = <<"6", " internal transfers detected">>

\* the alerts sent to sinks for the transactions of the current block
DispatchedOf(i) == {pipes[i].dispatched[j] : j \in DOMAIN pipes[i].dispatched}

C17_ErrorsContained ==
  /\ [](\A i \in DOMAIN pipes : pipes[i].outcome # "rejected")
  /\ [][(pc = "transactions" /\ pc' # "transactions") =>
          /\ \A i \in DOMAIN pipes : pipes[i].pc = "done"
          /\ successfulBlocks' = successfulBlocks + 1
          /\ blockNumber' = blockNumber + 1
          /\ pc' = "block"]_vars

\* a block about to be reported: one call ended in the catch, another one
\* was evaluated
C17_Witness ==
  /\ pc = "transactions"
  /\ \A i \in DOMAIN pipes : pipes[i].pc = "done"
  /\ \E i, j \in DOMAIN pipes :
       /\ pipes[i].outcome = "error"
       /\ pipes[j].outcome \in {"clean", "alerted"}

C19_AllSinks ==
  \A i \in DOMAIN pipes : \A d \in DispatchedOf(i) : d.sinks = Channels

\* C20: the calls of processTransaction running at one moment never exceed
\* MAX_CONCURRENT_TRACES
C20_BoundedInFlight == Cardinality(InFlight) <= MAX_CONCURRENT_TRACES

\* the limiter is full and a call is waiting
C20_Witness ==
  /\ Cardinality(InFlight) = MAX_CONCURRENT_TRACES
  /\ \E i \in DOMAIN pipes : pipes[i].pc = "queued" /\ involvesPYUSD(pipes[i].tx)

\* C21: every invocation of monitorBlocks ends with a setTimeout of
\* POLL_INTERVAL_MS pending, on each of its paths; a failed initialization
\* leaves the cursor unset and attempts no block
C21_AlwaysRescheduled ==
  /\ [](pc = "timer" => timer # NoTimer)
  /\ [][(pc # "timer" /\ pc' = "timer") => timer'.delay = POLL_INTERVAL_MS]_vars
  /\ [][(pc = "init" /\ pc' = "timer") =>
          /\ CursorUnset(latestBlock')
          /\ attemptLog' = attemptLog
          /\ processed' = processed]_vars
  /\ (pc # "timer") ~> (pc = "timer" /\ timer.delay = POLL_INTERVAL_MS)

\* the initialization failed: the next invocation is pending, the cursor is
\* unset and no block was attempted
C21_Witness ==
  /\ pc = "timer"
  /\ timer = [by |-> "initFailed", delay |-> POLL_INTERVAL_MS]
  /\ CursorUnset(latestBlock)
  /\ attemptLog = <<>>

\* the head queries never return more than H and from some point on return H
HeadSettles(H) == [](observedHead <= H) /\ <>[](currentBlock = H)

\* C22 as stated: every block above the initial cursor and at or below an
\* observed head is eventually attempted, and once the head stays at H the
\* cursor eventually equals H for good
C22_Coverage ==
  /\ \A b \in 1..MaxHead : InRange(b) ~> Attempted(b)
  /\ \A H \in 0..MaxHead : HeadSettles(H) => <>[](latestBlock = H)

\* C22 amended: the same, for a head H that is not below the initial cursor
C22_CoverageFromCursor ==
  /\ \A b \in 1..MaxHead : InRange(b) ~> Attempted(b)
  /\ \A H \in 0..MaxHead :
       (HeadSettles(H) /\ [](initialCursor <= H)) => <>[](latestBlock = H)

\* the cursor reached a head above the initial cursor, every block in
\* between was attempted, and the poller waits for its timer
C22_Witness ==
  /\ pc = "timer"
  /\ latestBlock = currentBlock
  /\ latestBlock = observedHead
  /\ latestBlock > initialCursor + 1
  /\ \A b \in (initialCursor + 1)..latestBlock : Attempted(b)

\* C23 as stated: once the three tiers have failed the block is reported
\* failed without getBlockTransactions being called again (violated by
\* monitor.js: withRetry wraps the whole call)
C23_NoChainRerun ==
  /\ fetcher.pc = "threw" => fetcher.calls = 0
  /\ fetcher.report = "failure" => fetcher.calls = 0

\* the trace request of transaction i failed at the network level
NetworkFailure(i) ==
  pipes[i].sends # <<>> /\ pipes[i].sends[1] \in {"timeout", "error"}

\* C24 as stated: a trace request that fails at the network level is sent
\* exactly once more, whatever the error; the trace is unavailable if the
\* second request fails too; withRetry adds no call of the fetcher
\* (violated: only a timeout is retried)
C24_RetriedOnce ==
  \A i \in DOMAIN pipes :
    NetworkFailure(i) =>
      /\ Len(pipes[i].sends) = 2
      /\ pipes[i].sends[2] \in {"timeout", "error"} => pipes[i].outcome = "noTrace"
      /\ pipes[i].traceRequests = 1

\* the input of transaction i starts with the transfer selector, its amount
\* cannot be decoded, and the transaction references the token
UndecodableTransfer(i) ==
  /\ ~MissingFrom(pipes[i].tx)
  /\ isPYUSDTransfer(pipes[i].tx)
  /\ DecodeThrows(pipes[i].tx)
  /\ involvesPYUSD(pipes[i].tx)

\* C25 as stated: a transfer that cannot be decoded is not dropped but
\* handled by its raw involvement: written, traced and evaluated like a
\* transaction that is no transfer (violated: the SyntaxError ends it)
C25_DecodeFallback ==
  \A i \in DOMAIN pipes :
    (UndecodableTransfer(i) /\ pipes[i].pc # "queued") =>
      /\ pipes[i].branch = "involved"
      /\ pipes[i].nodeSaid = "trace" => pipes[i].analyzed

\* C27: a transaction without a sender ends at once: no write of the
\* transaction, no trace request, no analysis, no rule evaluation, no alert
C27_MissingFromSkipped ==
  \A i \in DOMAIN pipes :
    pipes[i].tx.from = Null =>
      /\ pipes[i].pc \in {"queued", "done"}
      /\ pipes[i].outcome \in {"none", "noFrom"}
      /\ pipes[i].branch = "none"
      /\ pipes[i].traceRequests = 0 /\ pipes[i].sends = <<>>
      /\ ~pipes[i].analyzed /\ pipes[i].flags = <<>>
      /\ pipes[i].dispatched = <<>>
      /\ <<blockNumber, pipes[i].slot>> \notin evaluated
      /\ DocsOf(alerts, TxHashOf(pipes[i].tx)) = {}

\* a transaction to the token without a sender ended as skipped
C27_Witness ==
  \E i \in DOMAIN pipes :
    /\ pipes[i].tx.from = Null
    /\ ToLowerCase(pipes[i].tx.to) = Addr("pyusd")
    /\ pipes[i].pc = "done"
    /\ pipes[i].outcome = "noFrom"

\* C28 as stated: for a hash that is not 0x and 64 hex digits, as the
\* placeholder 0x0 and the unknown-<block>-<index> of tier 3, no request is
\* sent, the trace is unavailable and no alert follows (violated by the
\* module without isValidTxHash)
C28_InvalidHashNoCall ==
  \A i \in DOMAIN pipes :
    ~isValidTxHash(TxHashOf(pipes[i].tx)) =>
      /\ pipes[i].sends = <<>>
      /\ pipes[i].nodeSaid = "none"
      /\ ~pipes[i].analyzed
      /\ pipes[i].dispatched = <<>>

RulePosition(name) == CHOOSE k \in DOMAIN Rules : Rules[k] = name

\* C29 as stated: every call of evaluateCompliance runs the six rules, and
\* its issues are one per rule at most, in the order of the rules (violated:
\* on a trace without an array of steps the second rule throws and the
\* remaining four do not run)
C29_AllRulesRun ==
  \A i \in DOMAIN pipes :
    pipes[i].analyzed =>
      /\ pipes[i].rulesRun = Len(Rules)
      /\ \A j \in DOMAIN pipes[i].flags : \E k \in DOMAIN Rules : Rules[k] = pipes[i].flags[j].rule
      /\ \A j, k \in DOMAIN pipes[i].flags :
           j < k => RulePosition(pipes[i].flags[j].rule) < RulePosition(pipes[i].flags[k].rule)

\* the blocks of batch k of the iteration
BatchBlocks(k) == iteration.batches[k][1]..iteration.batches[k][2]

\* C30: the batches of a poll iteration that found head > cursor follow one
\* another from cursor + 1 without gap or overlap, none is empty, all but
\* the last hold MAX_BLOCKS_PER_BATCH blocks and the last at most as many,
\* and when the iteration ends their union is cursor + 1 .. head
C30_BatchesPartition ==
  /\ [](LET n == Len(iteration.batches) IN
        /\ n > 0 => iteration.batches[1][1] = iteration.cursor + 1
        /\ \A k \in 1..n :
             /\ Cardinality(BatchBlocks(k)) \in 1..MAX_BLOCKS_PER_BATCH
             /\ iteration.batches[k][2] <= currentBlock
             /\ k < n => /\ Cardinality(BatchBlocks(k)) = MAX_BLOCKS_PER_BATCH
                         /\ iteration.batches[k + 1][1] = iteration.batches[k][2] + 1)
  /\ [][(pc = "batch" /\ pc' = "timer") =>
          /\ currentBlock > iteration.cursor
          /\ UNION {BatchBlocks(k) : k \in DOMAIN iteration.batches}
               = (iteration.cursor + 1)..currentBlock]_vars

\* an iteration of two batches, the second shorter than the first, about to
\* end
C30_Witness ==
  /\ pc = "batch"
  /\ start > currentBlock
  /\ Len(iteration.batches) = 2
  /\ Cardinality(BatchBlocks(1)) = MAX_BLOCKS_PER_BATCH
  /\ Cardinality(BatchBlocks(2)) < MAX_BLOCKS_PER_BATCH

\* the rule of that name is among the issues of the engine
Issued(rule) == \E j \in DOMAIN issues : issues[j].rule = rule

\* C31: on every trace the report says highGasUsage exactly when the engine
\* returns HIGH_GAS_USAGE, and reentrancySuspected exactly when it returns
\* REENTRANCY_SUSPECTED
C31_SharedHeuristicsAgree ==
  /\ report.highGasUsage <=> Issued("HIGH_GAS_USAGE")
  /\ report.reentrancySuspected <=> Issued("REENTRANCY_SUSPECTED")

\* a trace of total gas above the threshold with DELEGATECALL at two depths:
\* both components report both heuristics
C31_Witness ==
  /\ FinalGas(CurrentTrace) > HIGH_GAS_THRESHOLD
  /\ Cardinality(DelegateDepths) = 2
  /\ report.highGasUsage /\ Issued("HIGH_GAS_USAGE")
  /\ report.reentrancySuspected /\ Issued("REENTRANCY_SUSPECTED")

\* the steps after the first whose gas is above one and a half times the gas
\* of the step before
SpikeSteps ==
  {k \in 2..Len(structLogs) : 2 * structLogs[k].gas > 3 * structLogs[k - 1].gas}

\* C32: gasSpikeDetected is set exactly when a step other than the first
\* reports more than 1.5 times the gas of the step before it; a trace of one
\* step has no gas spike
C32_GasSpike ==
  /\ report.gasSpikeDetected <=> SpikeSteps # {}
  /\ Len(structLogs) <= 1 => ~report.gasSpikeDetected

\* a trace whose last step is a spike and whose first steps are not, the
\* second at exactly 1.5 times the first
C32_Witness ==
  /\ Len(structLogs) = 3
  /\ 2 * structLogs[2].gas = 3 * structLogs[1].gas
  /\ SpikeSteps = {3}
  /\ report.gasSpikeDetected

\* C33: latestBlock is written by monitorBlocks alone, at the initialization
\* and after the last block of a batch: the steps of processBlockSafely, of
\* getBlockTransactions and of processTransaction leave it as it is, and no
\* limited call is pending from one invocation to the next
C33_CursorWrittenByPoller ==
  /\ [][latestBlock' # latestBlock =>
          \/ pc = "init" /\ CursorUnset(latestBlock)
          \/ /\ pc = "block" /\ blockNumber > end /\ pipes = <<>>
             /\ latestBlock' = end]_vars
  /\ [][(pc = "fetch" \/ pc = "transactions") => latestBlock' = latestBlock]_vars
  /\ [](pc = "timer" => pipes = <<>>)

\* the cursor has just moved to the end of a batch in which a transaction
\* was evaluated
C33_Witness ==
  /\ pc = "batch"
  /\ latestBlock = end
  /\ latestBlock > initialCursor
  /\ \E p \in evaluated : p[1] > initialCursor /\ p[1] <= latestBlock

\* no saveTransaction call is between its first and its last await
SavesAtRest == \A s \in DOMAIN saves : saves[s].pc \in {"idle", "returned"}

SavedCalls(txHash) ==
  {k \in DOMAIN callLog : callLog[k].ok /\ callLog[k].alert.txHash = txHash}

\* the last of them
LastSaved(txHash) ==
  callLog[CHOOSE k \in SavedCalls(txHash) : \A l \in SavedCalls(txHash) : l <= k].alert

\* C35: the store never holds two alerts of one txHash, and the alert it
\* holds for a txHash has the rule and the details of the last alert saved
\* for it, whatever the rule of the alert stored before
C35_LastAlertKept ==
  /\ \A d \in alerts : DocsOf(alerts, d.txHash) = {d}
  /\ \A d \in alerts :
       /\ SavedCalls(d.txHash) # {}
       /\ d.rule = LastSaved(d.txHash).rule
       /\ d.details = LastSaved(d.txHash).details
  /\ \A k \in DOMAIN callLog : callLog[k].ok => DocsOf(alerts, callLog[k].alert.txHash) # {}

\* two alerts of one transaction with different rules were saved one after
\* the other: the store holds the second
C35_Witness ==
  \E k \in DOMAIN callLog :
    /\ k > 1
    /\ callLog[k - 1].ok /\ callLog[k].ok
    /\ callLog[k - 1].alert.txHash = callLog[k].alert.txHash
    /\ callLog[k - 1].alert.rule # callLog[k].alert.rule
    /\ k = Len(callLog)
    /\ \E d \in alerts : d.txHash = callLog[k].alert.txHash /\ d.rule = callLog[k].alert.rule

\* the processBlockSafely call for block b has returned
Completed(b) ==
  /\ Attempted(b)
  /\ ~(blockNumber = b /\ (pc = "fetch" \/ pc = "transactions"))

\* C36 as stated: every block above the initial cursor and at or below
\* latestBlock has had its processBlockSafely call complete, and latestBlock
\* is at most the largest head read (violated: a configured STARTING_BLOCK is
\* the cursor before any head is read, and stays it under a lower head)
C36_CursorWithinHead ==
  /\ \A b \in 1..MaxHead : (initialCursor < b /\ b <= latestBlock) => Completed(b)
  /\ latestBlock <= observedHead

\* C36 amended: the same, with latestBlock at most the larger of the initial
\* cursor and the largest head read
C36_CursorWithinHeadOrStart ==
  /\ \A b \in 1..MaxHead : (initialCursor < b /\ b <= latestBlock) => Completed(b)
  /\ latestBlock <= Max(initialCursor, observedHead)

\* the cursor stands at the largest head read, two blocks above the initial
\* cursor, one of them failed
C36_Witness ==
  /\ latestBlock = observedHead
  /\ latestBlock >= initialCursor + 2
  /\ \E b \in (initialCursor + 1)..latestBlock : b \in failedBlocks
  /\ \A b \in (initialCursor + 1)..latestBlock : Completed(b)

\* C37: while an invocation of monitorBlocks runs no other one is scheduled,
\* while none runs exactly one is scheduled, and the successor is scheduled
\* by the step that ends the invocation, once
C37_SingleInvocation ==
  /\ [](pc # "timer" => timer = NoTimer)
  /\ [](pc = "timer" => timer # NoTimer)
  /\ [][timer' # timer =>
          \/ pc = "timer" /\ pc' # "timer" /\ timer' = NoTimer
          \/ pc # "timer" /\ pc' = "timer" /\ timer = NoTimer
               /\ timer'.delay = POLL_INTERVAL_MS]_vars

\* a later invocation found no new block and scheduled its successor, after
\* an earlier one had processed blocks
C37_Witness ==
  /\ pc = "timer"
  /\ timer = Rescheduled("noNewBlock")
  /\ attemptLog # <<>>
  /\ latestBlock > initialCursor

\* C38 as stated: the calls of processTransaction made for one block are
\* for different transaction hashes, and at most one alert is sent per hash
\* (violated by tier 3: the entries of one traced transaction share its hash)
C38_OncePerHash ==
  \A i, j \in DOMAIN pipes :
    (i # j /\ pipes[i].pc # "queued" /\ pipes[j].pc # "queued") =>
      /\ TxHashOf(pipes[i].tx) # TxHashOf(pipes[j].tx)
      /\ pipes[i].dispatched = <<>> \/ pipes[j].dispatched = <<>>

\* C39 as stated: a call in which tier 1 failed and tier 2 obtained no
\* transaction does not return from tier 2; it enters tier 3, and when tier 3
\* fails too the block is reported failed (violated: withRetry runs the
\* chain again, and a later run that returns reports the block processed)
C39_EmptyTier2FallsThrough ==
  /\ fetcher.settled =>
        /\ 1 \in fetcher.failed /\ 2 \in fetcher.failed
        /\ fetcher.got = {}
        /\ 3 \in InvokedTiers
  /\ (fetcher.pc = "returned" /\ fetcher.tiers = <<1, 2>>) => fetcher.result # <<>>
  /\ (fetcher.exhausted /\ fetcher.pc = "reported") => fetcher.report = "failure"

\* C40: a block whose transaction list was fetched is reported with success
\* true and counted, and its result names no failed transaction, whatever
\* the outcomes of its processTransaction calls
C40_NoFailedTxs ==
  /\ [](AllSettled(pipes) =>
          /\ BlockResult(pipes).success
          /\ BlockResult(pipes).failedTxs = 0
          /\ BlockResult(pipes).successfulTxs = Len(pipes))
  /\ [][(pc = "fetch" /\ pc' = "transactions") => blockNumber \notin failedBlocks']_vars
  /\ [][pipes' = <<>> /\ pipes # <<>> =>
          successfulBlocks' = successfulBlocks + 1 /\ failedBlocks' = failedBlocks]_vars

\* a block of two transactions is about to be reported: one call ended in
\* the catch, the trace of the other was unavailable
C40_Witness ==
  /\ pc = "transactions"
  /\ Len(pipes) = 2
  /\ AllSettled(pipes)
  /\ \E i, j \in DOMAIN pipes :
       pipes[i].outcome = "error" /\ pipes[j].outcome = "noTrace"
  /\ BlockResult(pipes).failedTxs = 0

====
